---- MODULE Spec2Model ----
(***************************************************************************)
(* A model of product_kernel's session binding and transaction boundaries: *)
(* db/context.py (the two ContextVars, set/reset/get_session and           *)
(* session_in_transaction), db/tx.py (the transactional decorator) and     *)
(* db/middleware.py (DBMiddleware.dispatch); and of what is built on them: *)
(* services/base_service.py (BaseService), repos/base.py (RepoBase),       *)
(* di/registry.py and di/inject.py.                                        *)
(*                                                                         *)
(* A unit is one asyncio task with its own contextvars Context; it has a   *)
(* call stack of open scopes (frames), and exc[u] is the exception that is *)
(* propagating in the unit, "none" while body code runs.                   *)
(***************************************************************************)
EXTENDS Integers, Sequences, FiniteSets, TLC

\* ------------------------------------------------------------------ bounds
MaxSessions == 3    \* sessions the factory hands out in one run
MaxCalls == 3       \* scopes and bindings opened in one run, by all units
MaxWrites == 1      \* rows written through one session

\* --------------------------------------------------------------- constants
None == 0           \* _session_cv's default: no session bound
DepthDefault == 0   \* _tx_depth's default

Units == {"A", "B"}
Sessions == 1..MaxSessions
BodyErrors == {"AppError", "Cancelled"}
Kinds == {"UsersRepo"}
Factories == {"ctor"}
RegistryKeys == {"UsersRepo", "PetsRepo"}
ProviderKinds == {"ctor", "mock", "needs_session", "bad_lookup"}

VARIABLES
    session_cv,   \* unit -> session bound in the unit's context, or None
    tx_depth,     \* unit -> value of _tx_depth in the unit's context
    stack,        \* unit -> sequence of open frames, innermost last
    exc,          \* unit -> exception propagating in the unit, or "none"
    origin,       \* unit -> where the propagating exception was first raised
    sessions,     \* session -> its state and the calls it has received
    tokens,       \* unit -> tokens returned by the unit's ad-hoc set_session
    nest,         \* unit -> begin/commit/rollback calls of the current nest
    fuel,         \* scopes and bindings that may still be opened in this run
    last,         \* the operation performed by the latest step
    providers,    \* _PROVIDERS: registered kind -> its factory
    service,      \* the service instance constructed last
    repo,         \* the repository instance resolved last
    obj,          \* the slots of the object that autowire is applied to
    mw,           \* the DBMiddleware instance: its engine and session factory
    eng,          \* db/engine.py: the module's _engine and _sessionmaker
    seed          \* execute_all: its mode, the seeds left, the seed being run

diVars == <<providers, service, repo, obj>>

procVars == <<mw, eng, seed>>

vars == <<session_cv, tx_depth, stack, exc, origin, sessions, tokens, nest,
          fuel, last, providers, service, repo, obj, mw, eng, seed>>

\* ------------------------------------------------------ the session object
\* An AsyncSession as its callers see it: it counts the calls it receives,
\* holds uncommitted rows (pending) and committed ones (durable).
FreshSession ==
    [state |-> "free", owner |-> "", inTx |-> FALSE, begins |-> 0,
     commits |-> 0, rollbacks |-> 0, pending |-> 0, durable |-> 0]

SOpen(r, u) == [r EXCEPT !.state = "open", !.owner = u]

SBegin(r) == [r EXCEPT !.begins = @ + 1, !.inTx = TRUE]

SBeginFail(r) == [r EXCEPT !.begins = @ + 1]

SCommit(r, fails) ==
    IF fails THEN [r EXCEPT !.commits = @ + 1]
    ELSE [r EXCEPT !.commits = @ + 1, !.durable = @ + r.pending,
                   !.pending = 0, !.inTx = FALSE]

SRollback(r, fails) ==
    IF fails THEN [r EXCEPT !.rollbacks = @ + 1]
    ELSE [r EXCEPT !.rollbacks = @ + 1, !.pending = 0, !.inTx = FALSE]

SClose(r) == [r EXCEPT !.state = "closed", !.pending = 0, !.inTx = FALSE]

SWrite(r) == [r EXCEPT !.pending = @ + 1, !.inTx = TRUE]

\* sess.begin() raises when the session already has a transaction (autobegun
\* by an earlier statement, or begun explicitly) or when the database fails.
BeginFails(r, fault) == r.inTx \/ fault

\* Leaving `async with sess.begin()` with exception e ("none": normally).
\* Result: the session and the exception that leaves the block.
BeginCtxExit(r, e, cf, rf) ==
    IF ~r.inTx THEN [s |-> r, out |-> e]
    ELSE IF e = "none"
         THEN IF ~cf THEN [s |-> SCommit(r, FALSE), out |-> "none"]
              ELSE [s |-> SRollback(SCommit(r, TRUE), rf),
                    out |-> IF rf THEN "RollbackError" ELSE "CommitError"]
         ELSE [s |-> SRollback(r, rf),
               out |-> IF rf THEN "RollbackError" ELSE e]

\* --------------------------------------------------------- the ContextVars
\* A slip: a module-level global instead of a ContextVar.
CvSetGlobal(cv, u, v) == [w \in DOMAIN cv |-> v]

\* ContextVar.set acts on the calling unit's context only.
CvSet(cv, u, v) == [cv EXCEPT ![u] = v]

\* A slip: clearing the variable instead of restoring the token's old value.
CvResetClears(cv, u, old) == [cv EXCEPT ![u] = None]

\* ContextVar.reset(token) puts back the value the variable had before the
\* set that made the token, again in the calling unit's context only.
CvReset(cv, u, old) == [cv EXCEPT ![u] = old]

\* `except Exception` catches everything but BaseException-only errors;
\* asyncio.CancelledError is one of those.
CaughtByExceptException(e) == e \notin {"none", "Cancelled"}

\* context.py:70  `if depth == 0`
IsOutermostEntry(depth) == depth = DepthDefault

\* ------------------------------------------------------------------ frames
\* An open scope: its kind ("sit": session_in_transaction, "txn": a call of
\* a @transactional method, "dispatch": DBMiddleware.dispatch), the session it
\* holds, the old value kept by its token, whether it opened the real
\* transaction; and, for the properties, the kinds of the scopes opened inside
\* it and what the session had received when it was entered.
Frame(kind, s, old, real) ==
    [kind |-> kind, sess |-> s, old |-> old, real |-> real, kids |-> {},
     c0 |-> sessions[s].commits, r0 |-> sessions[s].rollbacks,
     d0 |-> sessions[s].durable]

Push(stk, f) ==
    Append([i \in 1..Len(stk) |-> [stk[i] EXCEPT !.kids = @ \cup {f.kind}]], f)

\* A slip: the nested branch ends the transaction as well.
OwnsTransactionAlways(f) == TRUE

\* context.py:70-82: only the depth == 0 branch wraps the body in sess.begin().
OwnsTransaction(f) == f.real

Top(u) == stack[u][Len(stack[u])]
Pop(stk) == SubSeq(stk, 1, Len(stk) - 1)
HasKind(stk, kinds) == \E i \in 1..Len(stk) : stk[i].kind \in kinds

\* An exception leaving the outermost frame reaches the unit's top-level
\* caller, which handles it: nothing is left propagating.
Throw(stk, e) == IF stk = <<>> THEN "none" ELSE e

\* Where the propagating exception came from: the exception, the stack level
\* of the frame whose body or entry raised it, and that frame's kind.
\* d is what the bound session had made durable at that moment.
NoOrigin == [e |-> "none", lvl |-> 0, kind |-> "none", d |-> 0]

DurableOf(u) ==
    IF session_cv[u] = None THEN 0 ELSE sessions[session_cv[u]].durable

\* An operation called by the body of the innermost frame of u raises e.
RaisedByCallee(u, e, kind) ==
    IF stack[u] = <<>> THEN NoOrigin
    ELSE [e |-> e, lvl |-> Len(stack[u]) + 1, kind |-> kind, d |-> DurableOf(u)]

\* The exit of frame f (the top of stk) turns exception in into out.
OriginAfterExit(org, stk, f, in, out) ==
    IF Len(stk) = 1 \/ out = "none" THEN NoOrigin
    ELSE IF out = in THEN org
    ELSE [e |-> out, lvl |-> Len(stk), kind |-> f.kind, d |-> sessions[f.sess].durable]
ZeroNest == [b |-> 0, c |-> 0, r |-> 0]

\* An object made by a provider: the provider and the object's identity;
\* NoInstance stands for None, or for an attribute that is not there.
NoInstance == [of |-> "", id |-> 0]

\* What a registry operation did: the key it was given, the provider it
\* stored or invoked, how many times it invoked it, the instance it returned
\* and the key its error message names.
NoDi == [key |-> "", fac |-> "", inv |-> 0, val |-> NoInstance, names |-> ""]

\* The record of a step: the operation, the unit, the exception that came in
\* and the one that went out, and the session or value concerned.
Ev(op, u, in, out, s) ==
    [op |-> op, unit |-> u, in |-> in, out |-> out, sess |-> s, old |-> None,
     tok |-> 0, org |-> NoOrigin, outer |-> FALSE, real |-> FALSE, kids |-> {},
     fault |-> FALSE, xc |-> 0, xr |-> 0, dc |-> 0, dr |-> 0, dd |-> 0,
     xp |-> 0, di |-> NoDi]

\* The exit of frame f: outer says no enclosing boundary is left open, xc and
\* xr count the commit and rollback calls of the exit itself, dc, dr and dd
\* what the session received (and made durable) since f was entered, xp the
\* rows it held uncommitted when the exit began; fault says that a call whose
\* failure the exit swallows did fail.
ExitEv(op, u, in, out, f, outer, sold, snew) ==
    [op |-> op, unit |-> u, in |-> in, out |-> out, sess |-> f.sess,
     old |-> f.old, tok |-> 0, org |-> origin[u], outer |-> outer, real |-> f.real,
     kids |-> f.kids, fault |-> FALSE,
     xc |-> snew.commits - sold.commits, xr |-> snew.rollbacks - sold.rollbacks,
     dc |-> snew.commits - f.c0, dr |-> snew.rollbacks - f.r0,
     dd |-> snew.durable - f.d0, xp |-> sold.pending, di |-> NoDi]

Running(u) == exc[u] = "none"

\* No BaseService subclass has been instantiated yet; an instance keeps the
\* session its constructor stored and one annotated slot, `users: UsersRepo`.
NoService == [made |-> FALSE, by |-> "", session |-> None, users |-> NoInstance]

\* No repository has been resolved yet; an instance keeps no session (by, the
\* unit that resolved it, is kept for the properties only).
NoRepo == [made |-> FALSE, by |-> "", of |-> "", id |-> 0]

\* The class autowire is applied to in the registry runs, as its annotations
\* read, in declaration order: two mandatory slots, an optional one and a
\* private one.
Hints ==
    <<[name |-> "users", typ |-> "UsersRepo"],
      [name |-> "pets", typ |-> "PetsRepo"],
      [name |-> "audit", typ |-> "Optional[UsersRepo]"],
      [name |-> "_cache", typ |-> "UsersRepo"]>>

\* The annotation of a BaseService subclass with one repository.
ServiceHints == <<[name |-> "users", typ |-> "UsersRepo"]>>

\* A new instance of the class: no slot is set.
NoSlots == [users |-> NoInstance, pets |-> NoInstance, audit |-> NoInstance,
            _cache |-> NoInstance]

\* -------------------------------------------------------------------- Init
\* DBMiddleware.__init__: no engine, no session factory.  An engine is named
\* by its rank among the engines the instance created; built counts them,
\* disposed counts the dispose() calls, used holds the factories that made a
\* request's session.
NoMiddleware == [engine |-> 0, SessionMaker |-> 0, built |-> 0, disposed |-> 0,
                 used |-> {}]

\* db/engine.py after import: _engine and _sessionmaker are None.
\* url: DATABASE_URL is set in the environment of the process.
NoEngine == [engine |-> 0, sessionmaker |-> "", built |-> 0, url |-> TRUE]

\* execute_all is not running.  mode: "isolated" or "shared" while it runs,
\* "done" or "aborted" once _run_all_shared returned or an exception left
\* execute_all; left: seeds not started yet; call: which of its calls of the current
\* seed's run function _run_one_seed is in (0: none); runs: calls of the run
\* function so far, per seed in isolated mode, in all in shared mode.
NoSeed == [mode |-> "", left |-> 0, call |-> 0, runs |-> 0]

Init ==
    /\ session_cv = [u \in Units |-> None]
    /\ tx_depth = [u \in Units |-> DepthDefault]
    /\ stack = [u \in Units |-> <<>>]
    /\ exc = [u \in Units |-> "none"]
    /\ origin = [u \in Units |-> NoOrigin]
    /\ sessions = [s \in Sessions |-> FreshSession]
    /\ tokens = [u \in Units |-> <<>>]
    /\ nest = [u \in Units |-> ZeroNest]
    /\ fuel = MaxCalls
    /\ last = [op |-> "init", unit |-> "", in |-> "none", out |-> "none",
               sess |-> None, old |-> None, tok |-> 0, org |-> NoOrigin,
               outer |-> FALSE, real |-> FALSE, kids |-> {}, fault |-> FALSE,
               xc |-> 0, xr |-> 0, dc |-> 0, dr |-> 0, dd |-> 0, xp |-> 0,
               di |-> NoDi]
    /\ providers = <<>>
    /\ service = NoService
    /\ repo = NoRepo
    /\ obj = NoSlots
    /\ mw = NoMiddleware
    /\ eng = NoEngine
    /\ seed = NoSeed

\* ------------------------------------------------ context.py: the bindings
\* set_session(session) for a session the unit created (or creates now).
SetSession(u, s) ==
    /\ Running(u)
    /\ fuel > 0
    /\ fuel' = fuel - 1
    /\ \/ sessions[s].state = "free" /\ \A t \in 1..(s - 1) : sessions[t].state # "free"
       \/ sessions[s].state = "open" /\ sessions[s].owner = u
    /\ sessions' = [sessions EXCEPT ![s] = SOpen(@, u)]
    /\ tokens' = [tokens EXCEPT ![u] =
           Append(@, [old |-> session_cv[u], val |-> s, used |-> FALSE])]
    /\ session_cv' = CvSet(session_cv, u, s)
    /\ last' = Ev("set_session", u, "none", "none", s)
    /\ UNCHANGED <<tx_depth, stack, exc, origin, nest>>
    /\ UNCHANGED diVars
    /\ UNCHANGED procVars

\* A slip: a token may be used any number of times.
TokenSpentNever(tk) == FALSE

\* ContextVar.reset refuses a token that was used before.
TokenSpent(tk) == tk.used

\* reset_session(token)
ResetSession(u, i) ==
    /\ Running(u)
    /\ i \in 1..Len(tokens[u])
    /\ IF TokenSpent(tokens[u][i])
       THEN /\ exc' = [exc EXCEPT ![u] = Throw(stack[u], "TokenUsed")]
            /\ origin' = [origin EXCEPT ![u] = RaisedByCallee(u, "TokenUsed", "reset")]
            /\ last' = [Ev("reset_session", u, "none", "TokenUsed", session_cv[u])
                        EXCEPT !.tok = i]
            /\ UNCHANGED <<session_cv, tokens>>
       ELSE /\ session_cv' = CvReset(session_cv, u, tokens[u][i].old)
            /\ tokens' = [tokens EXCEPT ![u][i].used = TRUE]
            /\ last' = [Ev("reset_session", u, "none", "none", session_cv[u])
                        EXCEPT !.tok = i]
            /\ UNCHANGED <<exc, origin>>
    /\ UNCHANGED <<tx_depth, stack, sessions, nest, fuel>>
    /\ UNCHANGED diVars
    /\ UNCHANGED procVars

\* A slip: get_session hands out the variable's default instead of raising.
GetSessionResultLenient(cv, u) == "none"

\* get_session(): the bound session, or the not-bound RuntimeError.
GetSessionResult(cv, u) == IF cv[u] = None THEN "NotBound" ELSE "none"

\* What the message of an error tells its reader to call or to install.
Guidance(e) ==
    IF e = "NotBound" THEN {"set_session", "seed_runner", "middleware"} ELSE {}

\* What get_session returns to unit u when it does not raise.
GetSessionValue(cv, u) == cv[u]

GetSession(u) ==
    /\ Running(u)
    /\ last.op # "get_session" \/ last.unit # u
    /\ last' = Ev("get_session", u, "none", GetSessionResult(session_cv, u),
                   GetSessionValue(session_cv, u))
    /\ UNCHANGED <<session_cv, tx_depth, stack, exc, origin, sessions, tokens, nest, fuel>>
    /\ UNCHANGED diVars
    /\ UNCHANGED procVars

\* ------------------------------------- context.py: session_in_transaction
\* Entering `async with session_in_transaction()`.
SitEnter(u, bf) ==
    /\ Running(u)
    /\ fuel > 0
    /\ fuel' = fuel - 1
    /\ LET s == session_cv[u]
           depth == tx_depth[u]
           first == ~HasKind(stack[u], {"sit"})
           n0 == IF first THEN ZeroNest ELSE nest[u]
           raise(e) ==
               /\ exc' = [exc EXCEPT ![u] = Throw(stack[u], e)]
               /\ origin' = [origin EXCEPT ![u] = RaisedByCallee(u, e, "sit")]
               /\ last' = Ev("sit_enter", u, "none", e, s)
               /\ UNCHANGED stack
       IN IF s = None
          THEN /\ raise("NotBound")
               /\ UNCHANGED <<tx_depth, sessions, nest>>
          ELSE IF IsOutermostEntry(depth)
          THEN /\ tx_depth' = CvSet(tx_depth, u, 1)
               /\ nest' = [nest EXCEPT ![u] = [n0 EXCEPT !.b = @ + 1]]
               /\ IF BeginFails(sessions[s], bf)
                  THEN /\ sessions' = [sessions EXCEPT ![s] = SBeginFail(@)]
                       /\ raise("BeginError")
                  ELSE /\ sessions' = [sessions EXCEPT ![s] = SBegin(@)]
                       /\ stack' = [stack EXCEPT ![u] = Push(@, Frame("sit", s, depth, TRUE))]
                       /\ last' = Ev("sit_enter", u, "none", "none", s)
                       /\ UNCHANGED <<exc, origin>>
          ELSE /\ tx_depth' = CvSet(tx_depth, u, depth + 1)
               /\ nest' = [nest EXCEPT ![u] = n0]
               /\ stack' = [stack EXCEPT ![u] = Push(@, Frame("sit", s, depth, FALSE))]
               /\ last' = Ev("sit_enter", u, "none", "none", s)
               /\ UNCHANGED <<exc, origin, sessions>>
    /\ UNCHANGED <<session_cv, tokens>>
    /\ UNCHANGED diVars
    /\ UNCHANGED procVars

\* Leaving the scope, normally (exc[u] = "none") or with an exception.
SitExit(u, cf, rf) ==
    /\ stack[u] # <<>>
    /\ Top(u).kind = "sit"
    /\ LET f == Top(u)
           rest == Pop(stack[u])
           e == exc[u]
           r == IF OwnsTransaction(f) THEN BeginCtxExit(sessions[f.sess], e, cf, rf)
                ELSE [s |-> sessions[f.sess], out |-> e]
       IN /\ tx_depth' = CvReset(tx_depth, u, f.old)
          /\ sessions' = [sessions EXCEPT ![f.sess] = r.s]
          /\ nest' = [nest EXCEPT ![u] =
                 [@ EXCEPT !.c = @ + (r.s.commits - sessions[f.sess].commits),
                           !.r = @ + (r.s.rollbacks - sessions[f.sess].rollbacks)]]
          /\ stack' = [stack EXCEPT ![u] = rest]
          /\ exc' = [exc EXCEPT ![u] = Throw(rest, r.out)]
          /\ origin' = [origin EXCEPT ![u] = OriginAfterExit(@, stack[u], f, e, r.out)]
          /\ last' = ExitEv("sit_exit", u, e, r.out, f, ~HasKind(rest, {"sit"}),
                            sessions[f.sess], r.s)
    /\ UNCHANGED <<session_cv, tokens, fuel>>
    /\ UNCHANGED diVars
    /\ UNCHANGED procVars

\* ---------------------------------------------- tx.py: @transactional
\* Calling a method wrapped by the decorator: the wrapper reads the session
\* and awaits the method body.
TxnCall(u) ==
    /\ Running(u)
    /\ fuel > 0
    /\ fuel' = fuel - 1
    /\ LET s == session_cv[u]
       IN IF s = None
          THEN /\ exc' = [exc EXCEPT ![u] = Throw(stack[u], "NotBound")]
               /\ origin' = [origin EXCEPT ![u] = RaisedByCallee(u, "NotBound", "txn")]
               /\ last' = Ev("txn_call", u, "none", "NotBound", s)
               /\ UNCHANGED stack
          ELSE /\ stack' = [stack EXCEPT ![u] = Push(@, Frame("txn", s, None, FALSE))]
               /\ last' = Ev("txn_call", u, "none", "none", s)
               /\ UNCHANGED <<exc, origin>>
    /\ UNCHANGED <<session_cv, tx_depth, sessions, tokens, nest>>
    /\ UNCHANGED diVars
    /\ UNCHANGED procVars

\* What the wrapper does when the method body ends with exception e.
TxnWrapperExit(r, e, cf, rf) ==
    IF e = "none"
    THEN IF ~cf THEN [s |-> SCommit(r, FALSE), out |-> "none"]
         ELSE [s |-> SRollback(SCommit(r, TRUE), rf),
               out |-> IF rf THEN "RollbackError" ELSE "CommitError"]
    ELSE IF CaughtByExceptException(e)
         THEN [s |-> SRollback(r, rf), out |-> IF rf THEN "RollbackError" ELSE e]
         ELSE [s |-> r, out |-> e]

TxnExit(u, cf, rf) ==
    /\ stack[u] # <<>>
    /\ Top(u).kind = "txn"
    /\ LET f == Top(u)
           rest == Pop(stack[u])
           e == exc[u]
           r == TxnWrapperExit(sessions[f.sess], e, cf, rf)
       IN /\ sessions' = [sessions EXCEPT ![f.sess] = r.s]
          /\ stack' = [stack EXCEPT ![u] = rest]
          /\ exc' = [exc EXCEPT ![u] = Throw(rest, r.out)]
          /\ origin' = [origin EXCEPT ![u] = OriginAfterExit(@, stack[u], f, e, r.out)]
          /\ last' = ExitEv("txn_exit", u, e, r.out, f, ~HasKind(rest, {"txn", "sit"}),
                            sessions[f.sess], r.s)
    /\ UNCHANGED <<session_cv, tx_depth, tokens, nest, fuel>>
    /\ UNCHANGED diVars
    /\ UNCHANGED procVars

\* --------------------------------------------------------- db/engine.py
\* ensure_engine(): the engine and its session factory are created from
\* DATABASE_URL if there is no engine yet.
EnsureEngineCall(e) ==
    IF e.engine # 0 THEN [e |-> e, out |-> "none"]
    ELSE IF ~e.url THEN [e |-> e, out |-> "RuntimeError"]
    ELSE [e |-> [e EXCEPT !.engine = e.built + 1, !.sessionmaker = "own",
                          !.built = e.built + 1],
          out |-> "none"]

\* get_sessionmaker(): ensure_engine() if there is no factory, then the
\* assertion that there is one.
GetSessionmakerCall(e) ==
    LET r == IF e.sessionmaker = "" THEN EnsureEngineCall(e)
             ELSE [e |-> e, out |-> "none"]
    IN IF r.out = "none" /\ r.e.sessionmaker = ""
       THEN [e |-> r.e, out |-> "AssertionError"]
       ELSE r

EnsureEngine(u) ==
    /\ Running(u)
    /\ LET r == EnsureEngineCall(eng)
       IN /\ eng' = r.e
          /\ exc' = [exc EXCEPT ![u] = Throw(stack[u], r.out)]
          /\ origin' = [origin EXCEPT ![u] =
                 IF r.out = "none" THEN @ ELSE RaisedByCallee(u, r.out, "ensure_engine")]
          /\ last' = Ev("ensure_engine", u, "none", r.out, None)
    /\ UNCHANGED <<session_cv, tx_depth, stack, sessions, tokens, nest, fuel>>
    /\ UNCHANGED <<diVars, mw, seed>>

GetSessionmaker(u) ==
    /\ Running(u)
    /\ LET r == GetSessionmakerCall(eng)
       IN /\ eng' = r.e
          /\ exc' = [exc EXCEPT ![u] = Throw(stack[u], r.out)]
          /\ origin' = [origin EXCEPT ![u] =
                 IF r.out = "none" THEN @ ELSE RaisedByCallee(u, r.out, "get_sessionmaker")]
          /\ last' = Ev("get_sessionmaker", u, "none", r.out, None)
    /\ UNCHANGED <<session_cv, tx_depth, stack, sessions, tokens, nest, fuel>>
    /\ UNCHANGED <<diVars, mw, seed>>

\* set_sessionmaker(sm), sm being a factory made elsewhere, or None.
SetSessionmaker(u, sm) ==
    /\ Running(u)
    /\ eng' = [eng EXCEPT !.sessionmaker = sm]
    /\ last' = Ev("set_sessionmaker", u, "none", "none", None)
    /\ UNCHANGED <<session_cv, tx_depth, stack, exc, origin, sessions, tokens, nest, fuel>>
    /\ UNCHANGED <<diVars, mw, seed>>

\* The environment: DATABASE_URL is set (v) or removed, which
\* `os.getenv("DATABASE_URL")` reads at each call.
Putenv(u, v) ==
    /\ Running(u)
    /\ eng.url # v
    /\ eng' = [eng EXCEPT !.url = v]
    /\ last' = Ev("putenv", u, "none", "none", None)
    /\ UNCHANGED <<session_cv, tx_depth, stack, exc, origin, sessions, tokens, nest, fuel>>
    /\ UNCHANGED <<diVars, mw, seed>>

\* ------------------------------------------ middleware.py: DBMiddleware
\* create_async_engine and async_sessionmaker, kept by the instance.
BuildEngine(m) ==
    [m EXCEPT !.engine = m.built + 1, !.SessionMaker = m.built + 1,
              !.built = m.built + 1]

\* _init_engine()
InitEngine(m) == IF m.engine # 0 THEN m ELSE BuildEngine(m)

\* A slip: every request builds its engine and factory.
SessionMakerReadyPerRequest(m) == BuildEngine(m)

\* `if not self.SessionMaker: await self._init_engine()`; _init_engine
\* awaits nothing, so no other request runs between the test and the
\* assignments.
SessionMakerReady(m) == IF m.SessionMaker = 0 THEN InitEngine(m) ELSE m

\* dispatch up to `await call_next(request)`: the engine is there, and a new
\* session, made by the instance's factory, is bound.
DispatchEnter(u, s) ==
    /\ Running(u)
    /\ stack[u] = <<>>
    /\ fuel > 0
    /\ sessions[s].state = "free"
    /\ \A t \in 1..(s - 1) : sessions[t].state # "free"
    /\ fuel' = fuel - 1
    /\ sessions' = [sessions EXCEPT ![s] = SOpen(@, u)]
    /\ stack' = [stack EXCEPT ![u] = Push(@, Frame("dispatch", s, session_cv[u], FALSE))]
    /\ session_cv' = CvSet(session_cv, u, s)
    /\ mw' = [SessionMakerReady(mw) EXCEPT !.used = @ \cup {SessionMakerReady(mw).SessionMaker}]
    /\ last' = Ev("dispatch_enter", u, "none", "none", s)
    /\ UNCHANGED <<tx_depth, exc, origin, tokens, nest>>
    /\ UNCHANGED diVars
    /\ UNCHANGED <<eng, seed>>

\* A slip: the except clause re-raises without rolling back.
DispatchHandlerExitBare(r, e, rf) == r

\* The rest of dispatch, once call_next returned or raised e: the except
\* clause, whose rollback may fail without consequence ...
DispatchHandlerExit(r, e, rf) ==
    IF CaughtByExceptException(e) THEN SRollback(r, rf) ELSE r

\* A slip: the reset placed after call_next instead of in a finally clause.
DispatchReleaseOnReturn(cv, u, f, e) ==
    IF e = "none" THEN CvReset(cv, u, f.old) ELSE cv

\* ... and the finally clause, reset_session(token).
DispatchRelease(cv, u, f, e) == CvReset(cv, u, f.old)

\* A slip: the session is taken from SessionMaker.begin(), which commits
\* when the block is left.
DispatchSessionExitCommits(r) == SClose(SCommit(r, FALSE))

\* Leaving `async with self.SessionMaker() as session`: the session is
\* closed, and what it had not committed is dropped.
DispatchSessionExit(r) == SClose(r)

DispatchExit(u, rf) ==
    /\ stack[u] # <<>>
    /\ Top(u).kind = "dispatch"
    /\ LET f == Top(u)
           rest == Pop(stack[u])
           e == exc[u]
           r == DispatchSessionExit(DispatchHandlerExit(sessions[f.sess], e, rf))
       IN /\ sessions' = [sessions EXCEPT ![f.sess] = r]
          /\ session_cv' = DispatchRelease(session_cv, u, f, e)
          /\ stack' = [stack EXCEPT ![u] = rest]
          /\ exc' = [exc EXCEPT ![u] = Throw(rest, e)]
          /\ origin' = [origin EXCEPT ![u] = NoOrigin]
          /\ last' = [ExitEv("dispatch_exit", u, e, e, f, TRUE, sessions[f.sess], r)
                      EXCEPT !.fault = rf /\ CaughtByExceptException(e)]
    /\ UNCHANGED <<tx_depth, tokens, nest, fuel>>
    /\ UNCHANGED diVars
    /\ UNCHANGED procVars

\* shutdown()
Shutdown(u) ==
    /\ Running(u)
    /\ fuel > 0
    /\ fuel' = fuel - 1
    /\ mw' = IF mw.engine # 0 THEN [mw EXCEPT !.disposed = @ + 1] ELSE mw
    /\ last' = Ev("shutdown", u, "none", "none", None)
    /\ UNCHANGED <<session_cv, tx_depth, stack, exc, origin, sessions, tokens, nest>>
    /\ UNCHANGED <<diVars, eng, seed>>

\* ------------------------------------------------------- application code
\* A statement that writes a row through the bound session (RepoBase.create):
\* the session begins a transaction by itself if it has none.
Write(u) ==
    /\ Running(u)
    /\ session_cv[u] # None
    /\ sessions[session_cv[u]].state = "open"
    /\ sessions[session_cv[u]].pending + sessions[session_cv[u]].durable < MaxWrites
    /\ sessions' = [sessions EXCEPT ![session_cv[u]] = SWrite(@)]
    /\ last' = Ev("write", u, "none", "none", session_cv[u])
    /\ UNCHANGED <<session_cv, tx_depth, stack, exc, origin, tokens, nest, fuel>>
    /\ UNCHANGED diVars
    /\ UNCHANGED procVars

\* The body of the innermost open scope raises e, or the task is cancelled.
Raise(u, e) ==
    /\ Running(u)
    /\ stack[u] # <<>>
    /\ exc' = [exc EXCEPT ![u] = e]
    /\ origin' = [origin EXCEPT ![u] =
           [e |-> e, lvl |-> Len(stack[u]), kind |-> Top(u).kind, d |-> DurableOf(u)]]
    /\ last' = Ev("raise", u, "none", e, None)
    /\ UNCHANGED <<session_cv, tx_depth, stack, sessions, tokens, nest, fuel>>
    /\ UNCHANGED diVars
    /\ UNCHANGED procVars

\* The body of the innermost open scope catches what a callee raised.
Catch(u) ==
    /\ exc[u] # "none"
    /\ Len(stack[u]) < origin[u].lvl
    /\ exc' = [exc EXCEPT ![u] = "none"]
    /\ origin' = [origin EXCEPT ![u] = NoOrigin]
    /\ last' = Ev("catch", u, exc[u], "none", None)
    /\ UNCHANGED <<session_cv, tx_depth, stack, sessions, tokens, nest, fuel>>
    /\ UNCHANGED diVars
    /\ UNCHANGED procVars

\* One step of a unit that runs transactional code.
Step(u) ==
    \/ \E s \in Sessions : SetSession(u, s)
    \/ GetSession(u)
    \/ \E bf \in BOOLEAN : SitEnter(u, bf)
    \/ \E cf, rf \in BOOLEAN : SitExit(u, cf, rf)
    \/ TxnCall(u)
    \/ \E cf, rf \in BOOLEAN : TxnExit(u, cf, rf)
    \/ \E s \in Sessions : DispatchEnter(u, s)
    \/ \E rf \in BOOLEAN : DispatchExit(u, rf)
    \/ Write(u)
    \/ \E e \in BodyErrors : Raise(u, e)
    \/ Catch(u)

Next == \E u \in {"A"} : Step(u)

Spec == Init /\ [][Next]_vars

\* Two units running concurrently, interleaved at every step: each binds,
\* unbinds and reads sessions, serves requests and opens scopes.
CtxStep(u) ==
    \/ \E s \in Sessions : SetSession(u, s)
    \/ \E i \in 1..MaxCalls : ResetSession(u, i)
    \/ \E s \in Sessions : DispatchEnter(u, s)
    \/ DispatchExit(u, FALSE)
    \/ SitEnter(u, FALSE)
    \/ SitExit(u, FALSE, FALSE)

NextCtx == \E u \in Units : CtxStep(u)

SpecCtx == Init /\ [][NextCtx]_vars

\* --------------------------------------------------- the errors, by class
\* The Python class of each error: get_session, resolve and ContextVar.reset
\* raise RuntimeError, as does contextlib for a generator that yields twice;
\* set_session raises ValueError; a name that is not defined, NameError.
ErrorClass(e) ==
    CASE e \in {"NotBound", "NoProvider", "TokenUsed", "GeneratorDidntStop",
                "RuntimeError"} -> "RuntimeError"
      [] e = "NullSession" -> "ValueError"
      [] e = "Cancelled" -> "CancelledError"
      [] OTHER -> e

\* `except RuntimeError`
CaughtByExceptRuntimeError(e) == ErrorClass(e) = "RuntimeError"

\* ------------------------------------ base_service.py: BaseService.new_session
\* `clear_session()`: base_service.py imports the name from db.context, which
\* defines none; reaching the call raises instead of unbinding.
ClearSession(cv, u) == [cv |-> cv, out |-> "NameError"]

\* Entering `async with BaseService.new_session()`: the bound session is
\* yielded if there is one, or else a session s is created, bound and yielded.
NewSessionEnter(u, s) ==
    /\ Running(u)
    /\ fuel > 0
    /\ fuel' = fuel - 1
    /\ IF GetSessionResult(session_cv, u) = "none"
       THEN /\ s = GetSessionValue(session_cv, u)
            /\ stack' = [stack EXCEPT ![u] = Push(@, Frame("ns", s, session_cv[u], FALSE))]
            /\ last' = [Ev("ns_enter", u, "none", "none", s) EXCEPT !.old = session_cv[u]]
            /\ UNCHANGED <<session_cv, sessions>>
            /\ UNCHANGED <<exc, origin, eng>>
       ELSE /\ sessions[s].state = "free"
            /\ \A t \in 1..(s - 1) : sessions[t].state # "free"
            /\ LET g == GetSessionmakerCall(eng)
               IN /\ eng' = g.e
                  /\ IF g.out = "none"
                     THEN /\ sessions' = [sessions EXCEPT ![s] = SOpen(@, u)]
                          /\ session_cv' = CvSet(session_cv, u, s)
                          /\ stack' = [stack EXCEPT ![u] =
                                 Push(@, Frame("ns", s, session_cv[u], TRUE))]
                          /\ last' = [Ev("ns_enter", u, "none", "none", s)
                                        EXCEPT !.real = TRUE]
                          /\ UNCHANGED <<exc, origin>>
                     ELSE /\ exc' = [exc EXCEPT ![u] = Throw(stack[u], g.out)]
                          /\ origin' = [origin EXCEPT ![u] =
                                 RaisedByCallee(u, g.out, "ns")]
                          /\ last' = Ev("ns_enter", u, "none", g.out, None)
                          /\ UNCHANGED <<session_cv, sessions, stack>>
    /\ UNCHANGED <<tx_depth, tokens, nest, diVars>>
    /\ UNCHANGED <<mw, seed>>

\* The scope that created its session, left with exception e: commit, or
\* rollback under `except Exception`; then the finally clause; then
\* async_session closes the session.  Result: session, binding, exception.
NewSessionOwnExit(r, cv, u, e, cf, rf) ==
    LET w == TxnWrapperExit(r, e, cf, rf)
        c == ClearSession(cv, u)
    IN [s |-> SClose(w.s), cv |-> c.cv, out |-> IF c.out = "none" THEN w.out ELSE c.out]

\* The scope that reused the bound session, left with exception e that
\* `except RuntimeError` does not catch: the generator just ends.
NewSessionReuseExit(e) == e

\* The same with a RuntimeError thrown in at the first yield: the except
\* clause runs the creating branch with a new session s2, whose yield is a
\* second one, which contextlib answers with its own RuntimeError.  fin says
\* whether the suspended generator is closed right away (contextlib does so
\* from Python 3.12 on): its finally clause runs and async_session closes s2.
NewSessionSecondYield(r2, cv, u, s2, fin) ==
    LET bound == CvSet(cv, u, s2)
        c == ClearSession(bound, u)
    IN IF fin THEN [s |-> SClose(r2), cv |-> c.cv,
                    out |-> IF c.out = "none" THEN "GeneratorDidntStop" ELSE c.out]
       ELSE [s |-> r2, cv |-> bound, out |-> "GeneratorDidntStop"]

NewSessionExit(u, s2, cf, rf, fin) ==
    /\ stack[u] # <<>>
    /\ Top(u).kind = "ns"
    /\ LET f == Top(u)
           rest == Pop(stack[u])
           e == exc[u]
           finish(out, snew) ==
               /\ stack' = [stack EXCEPT ![u] = rest]
               /\ exc' = [exc EXCEPT ![u] = Throw(rest, out)]
               /\ origin' = [origin EXCEPT ![u] = OriginAfterExit(@, stack[u], f, e, out)]
               /\ last' = [ExitEv("ns_exit", u, e, out, f, ~HasKind(rest, {"ns"}),
                                  sessions[f.sess], snew) EXCEPT !.fault = fin]
       IN IF f.real
          THEN LET x == NewSessionOwnExit(sessions[f.sess], session_cv, u, e, cf, rf)
               IN /\ s2 = f.sess
                  /\ ~fin
                  /\ sessions' = [sessions EXCEPT ![f.sess] = x.s]
                  /\ session_cv' = x.cv
                  /\ finish(x.out, x.s)
                  /\ UNCHANGED eng
          ELSE IF CaughtByExceptRuntimeError(e)
          THEN LET x == NewSessionSecondYield(SOpen(sessions[s2], u), session_cv, u, s2, fin)
                   g == GetSessionmakerCall(eng)
               IN /\ sessions[s2].state = "free"
                  /\ \A t \in 1..(s2 - 1) : sessions[t].state # "free"
                  /\ ~cf /\ ~rf
                  /\ eng' = g.e
                  /\ IF g.out = "none"
                     THEN /\ sessions' = [sessions EXCEPT ![s2] = x.s]
                          /\ session_cv' = x.cv
                          /\ finish(x.out, sessions[f.sess])
                     ELSE /\ ~fin
                          /\ finish(g.out, sessions[f.sess])
                          /\ UNCHANGED <<session_cv, sessions>>
          ELSE /\ s2 = f.sess
               /\ ~cf /\ ~rf /\ ~fin
               /\ finish(NewSessionReuseExit(e), sessions[f.sess])
               /\ UNCHANGED <<session_cv, sessions, eng>>
    /\ UNCHANGED <<tx_depth, tokens, nest, fuel, diVars>>
    /\ UNCHANGED <<mw, seed>>

\* ------------------------------------------------ registry.py and inject.py
\* A slip: register keeps the first provider of a key (dict.setdefault).
RegistryPutIfAbsent(prov, k, p) ==
    [x \in DOMAIN prov \cup {k} |-> IF x \in DOMAIN prov THEN prov[x] ELSE p]

\* `_PROVIDERS[type_] = provider`
RegistryPut(prov, k, p) ==
    [x \in DOMAIN prov \cup {k} |-> IF x = k THEN p ELSE prov[x]]

\* register(type_, provider)
Register(u, k, p) ==
    /\ Running(u)
    /\ providers' = RegistryPut(providers, k, p)
    /\ last' = [Ev("register", u, "none", "none", None) EXCEPT
                    !.di = [NoDi EXCEPT !.key = k, !.fac = p]]
    /\ UNCHANGED <<session_cv, tx_depth, stack, exc, origin, sessions, tokens, nest,
                   fuel, service, repo, obj>>
    /\ UNCHANGED procVars

\* The identities of the objects that are referred to somewhere.
LiveIds ==
    ({repo.id, service.users.id} \cup {obj[n].id : n \in DOMAIN obj}) \ {0}

\* A new object is none of the live ones.
FreshId(live) == CHOOSE n \in 1..(Cardinality(live) + 1) :
                     n \notin live /\ \A m \in 1..(n - 1) : m \in live

\* What calling provider p in unit u ends with: "ctor" is `lambda: cls()` of
\* a repository and "mock" a replacement of it, which cannot fail;
\* "needs_session" makes a service, whose constructor reads the bound session.
ProviderOutcome(p, cv, u) ==
    IF p = "needs_session" THEN GetSessionResult(cv, u)
    ELSE IF p = "bad_lookup" THEN "KeyError"
    ELSE "none"

\* A slip: the provider hands out one shared instance.
ProviderProductShared(p, id) == [of |-> p, id |-> 1]

\* The object the provider makes: a new one at each call.
ProviderProduct(p, id) == [of |-> p, id |-> id]

\* A slip: a missing key gives None (dict.get) instead of an error.
ResolveMissingQuiet(k) == [NoDi EXCEPT !.key = k] @@ [out |-> "none"]

\* resolve(type_) for a key that is not in _PROVIDERS: RuntimeError("No
\* provider registered for type <module>.<name>").
ResolveMissing(k) == [NoDi EXCEPT !.key = k, !.names = k] @@ [out |-> "NoProvider"]

\* resolve(type_) in unit u, id being the identity a new object would get:
\* the provider's product, the provider's error, or RuntimeError for a
\* KeyError raised while looking the key up and calling the provider.
ResolveCall(prov, k, cv, u, id) ==
    IF k \notin DOMAIN prov
    THEN ResolveMissing(k)
    ELSE LET e == ProviderOutcome(prov[k], cv, u)
         IN [key |-> k, fac |-> prov[k], inv |-> 1,
             val |-> IF e = "none" THEN ProviderProduct(prov[k], id) ELSE NoInstance,
             names |-> IF ErrorClass(e) = "KeyError" THEN k ELSE "",
             out |-> IF ErrorClass(e) = "KeyError" THEN "NoProvider" ELSE e]

\* What is left of it for the history record.
DiOf(r) == [key |-> r.key, fac |-> r.fac, inv |-> r.inv, val |-> r.val,
            names |-> r.names]

\* resolve(type_): the caller keeps what it gets in `repo`.
Resolve(u, k) ==
    /\ Running(u)
    /\ LET r == ResolveCall(providers, k, session_cv, u, FreshId(LiveIds))
       IN /\ repo' = IF r.out = "none"
                     THEN [made |-> TRUE, by |-> u, of |-> r.val.of, id |-> r.val.id]
                     ELSE repo
          /\ exc' = [exc EXCEPT ![u] = Throw(stack[u], r.out)]
          /\ origin' = [origin EXCEPT ![u] =
                 IF r.out = "none" THEN @ ELSE RaisedByCallee(u, r.out, "resolve")]
          /\ last' = [Ev("resolve", u, "none", r.out, None) EXCEPT !.di = DiOf(r)]
    /\ UNCHANGED <<session_cv, tx_depth, stack, sessions, tokens, nest, fuel,
                   providers, service, obj>>
    /\ UNCHANGED procVars

\* name.startswith("_")
StartsWithUnderscore(name) == name \in {"_cache"}

\* typing.get_origin and get_args: Optional[T] is Union[T, None], whose origin
\* is Union; a class has no origin.
GetOrigin(typ) == IF typ \in {"Optional[UsersRepo]"} THEN "Union" ELSE "none"
GetArgs(typ) == IF typ = "Optional[UsersRepo]" THEN <<"UsersRepo", "NoneType">> ELSE <<>>

\* _unwrap_optional(typ)
UnwrapOptional(typ) ==
    IF GetOrigin(typ) = "Optional" THEN GetArgs(typ)[1] ELSE typ

\* A slip: the test for a slot that is already set is left out.
SlotIsSetNever(slots, name) == FALSE

\* `hasattr(obj, name) and getattr(obj, name) is not None`
SlotIsSet(slots, name) == slots[name] # NoInstance

\* autowire(obj) from the i-th annotation on: slots are the attributes of the
\* object, live the identities in use; a private name and a slot that is set
\* are skipped, a RuntimeError of resolve leaves the slot as it is, any other
\* error ends the loop and leaves autowire.  inv counts the provider calls.
RECURSIVE AutowireFrom(_, _, _, _, _, _, _, _)
AutowireFrom(i, hints, slots, prov, cv, u, live, inv) ==
    IF i > Len(hints) THEN [slots |-> slots, out |-> "none", inv |-> inv]
    ELSE LET h == hints[i]
         IN IF StartsWithUnderscore(h.name) \/ SlotIsSet(slots, h.name)
            THEN AutowireFrom(i + 1, hints, slots, prov, cv, u, live, inv)
            ELSE LET r == ResolveCall(prov, UnwrapOptional(h.typ), cv, u, FreshId(live))
                 IN IF r.out = "none"
                    THEN AutowireFrom(i + 1, hints, [slots EXCEPT ![h.name] = r.val],
                                      prov, cv, u, live \cup {r.val.id}, inv + r.inv)
                    ELSE IF CaughtByExceptRuntimeError(r.out)
                    THEN AutowireFrom(i + 1, hints, slots, prov, cv, u, live, inv + r.inv)
                    ELSE [slots |-> slots, out |-> r.out, inv |-> inv + r.inv]

Autowire(hints, slots, prov, cv, u, live) ==
    AutowireFrom(1, hints, slots, prov, cv, u, live, 0)

\* `x = SomeClass()` for the class with the annotations Hints, which defines
\* no constructor; the object x had before is dropped.
NewObject(u) ==
    /\ Running(u)
    /\ obj # NoSlots
    /\ obj' = NoSlots
    /\ last' = Ev("new_object", u, "none", "none", None)
    /\ UNCHANGED <<session_cv, tx_depth, stack, exc, origin, sessions, tokens, nest,
                   fuel, providers, service, repo>>
    /\ UNCHANGED procVars

\* `x.name = something` by the code that owns x.
AssignSlot(u, name) ==
    /\ Running(u)
    /\ obj[name] = NoInstance
    /\ obj' = [obj EXCEPT ![name] = [of |-> "caller", id |-> FreshId(LiveIds)]]
    /\ last' = Ev("assign_slot", u, "none", "none", None)
    /\ UNCHANGED <<session_cv, tx_depth, stack, exc, origin, sessions, tokens, nest,
                   fuel, providers, service, repo>>
    /\ UNCHANGED procVars

\* autowire(x)
AutowireObject(u) ==
    /\ Running(u)
    /\ LET r == Autowire(Hints, obj, providers, session_cv, u, LiveIds)
       IN /\ obj' = r.slots
          /\ exc' = [exc EXCEPT ![u] = Throw(stack[u], r.out)]
          /\ origin' = [origin EXCEPT ![u] =
                 IF r.out = "none" THEN @ ELSE RaisedByCallee(u, r.out, "autowire")]
          /\ last' = [Ev("autowire", u, "none", r.out, None) EXCEPT !.di.inv = r.inv]
    /\ UNCHANGED <<session_cv, tx_depth, stack, sessions, tokens, nest, fuel,
                   providers, service, repo>>
    /\ UNCHANGED procVars

\* ------------------------------------------------------ repos/base.py: RepoBase
\* A slip: the instance keeps the session of the unit that made it.
RepoSessionOfMaker(cv, u, r) == cv[r.by]

\* The session property: get_session(), evaluated by the calling unit at
\* each use.
RepoSession(cv, u, r) == GetSessionValue(cv, u)

\* RepoBase.create, called by unit u on the repository instance.
RepoCreate(u) ==
    /\ Running(u)
    /\ repo.made
    /\ LET s == RepoSession(session_cv, u, repo)
       IN IF s = None
          THEN /\ exc' = [exc EXCEPT ![u] = Throw(stack[u], "NotBound")]
               /\ origin' = [origin EXCEPT ![u] = RaisedByCallee(u, "NotBound", "repo")]
               /\ last' = Ev("repo_create", u, "none", "NotBound", s)
               /\ last.op # "repo_create" \/ last.unit # u
               /\ UNCHANGED sessions
          ELSE /\ sessions[s].state = "open"
               /\ sessions[s].pending + sessions[s].durable < MaxWrites
               /\ sessions' = [sessions EXCEPT ![s] = SWrite(@)]
               /\ last' = Ev("repo_create", u, "none", "none", s)
               /\ UNCHANGED <<exc, origin>>
    /\ UNCHANGED <<session_cv, tx_depth, stack, tokens, nest, fuel, diVars>>
    /\ UNCHANGED procVars

\* ------------------------------------------- base_service.py: BaseService
\* BaseService.__init__(session=a): the session given, or else the bound one,
\* is stored in the instance; then autowire(self).
ServiceNew(u, a) ==
    /\ Running(u)
    /\ a # None => (sessions[a].state = "open" /\ sessions[a].owner = u)
    /\ LET got == IF a # None THEN "none" ELSE GetSessionResult(session_cv, u)
           s == IF a # None THEN a ELSE GetSessionValue(session_cv, u)
           w == Autowire(ServiceHints, [users |-> NoInstance], providers, session_cv, u,
                         LiveIds)
           out == IF got = "none" THEN w.out ELSE got
       IN /\ service' = IF out = "none"
                        THEN [made |-> TRUE, by |-> u, session |-> s,
                              users |-> w.slots.users]
                        ELSE service
          /\ exc' = [exc EXCEPT ![u] = Throw(stack[u], out)]
          /\ origin' = [origin EXCEPT ![u] =
                 IF out = "none" THEN @ ELSE RaisedByCallee(u, out, "init")]
          /\ last' = Ev("svc_new", u, "none", out, s)
    /\ UNCHANGED <<session_cv, tx_depth, stack, sessions, tokens, nest, fuel,
                   providers, repo, obj>>
    /\ UNCHANGED procVars

\* The session BaseService.commit and rollback act on when unit u calls them
\* on instance svc: the one stored by the constructor.
ServiceSession(cv, u, svc) == svc.session

\* BaseService.commit()
ServiceCommit(u, cf) ==
    /\ Running(u)
    /\ service.made
    /\ fuel > 0
    /\ fuel' = fuel - 1
    /\ LET s == ServiceSession(session_cv, u, service)
           out == IF cf THEN "CommitError" ELSE "none"
       IN /\ sessions' = [sessions EXCEPT ![s] = SCommit(@, cf)]
          /\ exc' = [exc EXCEPT ![u] = Throw(stack[u], out)]
          /\ origin' = [origin EXCEPT ![u] =
                 IF out = "none" THEN @ ELSE RaisedByCallee(u, out, "commit")]
          /\ last' = [Ev("svc_commit", u, "none", out, s) EXCEPT !.xc = 1]
    /\ UNCHANGED <<session_cv, tx_depth, stack, tokens, nest, diVars>>
    /\ UNCHANGED procVars

\* BaseService.rollback()
ServiceRollback(u, rf) ==
    /\ Running(u)
    /\ service.made
    /\ fuel > 0
    /\ fuel' = fuel - 1
    /\ LET s == ServiceSession(session_cv, u, service)
           out == IF rf THEN "RollbackError" ELSE "none"
       IN /\ sessions' = [sessions EXCEPT ![s] = SRollback(@, rf)]
          /\ exc' = [exc EXCEPT ![u] = Throw(stack[u], out)]
          /\ origin' = [origin EXCEPT ![u] =
                 IF out = "none" THEN @ ELSE RaisedByCallee(u, out, "rollback")]
          /\ last' = [Ev("svc_rollback", u, "none", out, s) EXCEPT !.xr = 1]
    /\ UNCHANGED <<session_cv, tx_depth, stack, tokens, nest, diVars>>
    /\ UNCHANGED procVars

\* What BaseService does to the instance when one of its subclass's public
\* methods, not decorated, is called: nothing (autowire ran in __init__ only).
ServiceBeforeBody(svc, prov) == svc

\* Unit u calls a public method of the service instance that carries no
\* decorator: a plain call, the class wraps nothing around it.
ServiceCall(u) ==
    /\ Running(u)
    /\ service.made
    /\ fuel > 0
    /\ fuel' = fuel - 1
    /\ service' = ServiceBeforeBody(service, providers)
    /\ stack' = [stack EXCEPT ![u] = Push(@, Frame("svc", service.session, None, FALSE))]
    /\ last' = Ev("svc_call", u, "none", "none", service.session)
    /\ UNCHANGED <<session_cv, tx_depth, exc, origin, sessions, tokens, nest,
                   providers, repo, obj>>
    /\ UNCHANGED procVars

\* The method returns, or the exception its body raised leaves it.
ServiceReturn(u) ==
    /\ stack[u] # <<>>
    /\ Top(u).kind = "svc"
    /\ LET f == Top(u)
           rest == Pop(stack[u])
           e == exc[u]
       IN /\ stack' = [stack EXCEPT ![u] = rest]
          /\ exc' = [exc EXCEPT ![u] = Throw(rest, e)]
          /\ origin' = [origin EXCEPT ![u] = OriginAfterExit(@, stack[u], f, e, e)]
          /\ last' = ExitEv("svc_exit", u, e, e, f, ~HasKind(rest, {"txn", "sit"}),
                            sessions[f.sess], sessions[f.sess])
    /\ UNCHANGED <<session_cv, tx_depth, sessions, tokens, nest, fuel, diVars>>
    /\ UNCHANGED procVars

\* set_session(None)
SetSessionNone(u) ==
    /\ Running(u)
    /\ last.op # "set_session" \/ last.unit # u \/ last.out = "none"
    /\ exc' = [exc EXCEPT ![u] = Throw(stack[u], "NullSession")]
    /\ origin' = [origin EXCEPT ![u] = RaisedByCallee(u, "NullSession", "set")]
    /\ last' = Ev("set_session", u, "none", "NullSession", None)
    /\ UNCHANGED <<session_cv, tx_depth, stack, sessions, tokens, nest, fuel, diVars>>
    /\ UNCHANGED procVars

\* A standalone unit (a job, a script, a test) that opens new_session
\* scopes, with or without a session bound before, and works inside them.
NsStep(u) ==
    \/ \E s \in Sessions : SetSession(u, s)
    \/ GetSession(u)
    \/ \E s \in Sessions : NewSessionEnter(u, s)
    \/ \E s2 \in Sessions, cf, rf, fin \in BOOLEAN : NewSessionExit(u, s2, cf, rf, fin)
    \/ Write(u)
    \/ \E e \in BodyErrors \cup {"RuntimeError"} : Raise(u, e)

NextNs == \E u \in {"A"} : NsStep(u)

SpecNs == Init /\ [][NextNs]_vars

\* Unit A registers, resolves and constructs, and uses what it made ...
SvcStep(u) ==
    \/ \E s \in Sessions : SetSession(u, s)
    \/ SetSessionNone(u)
    \/ GetSession(u)
    \/ \E k \in Kinds, p \in Factories : Register(u, k, p)
    \/ \E k \in Kinds : Resolve(u, k)
    \/ \E a \in Sessions \cup {None} : ServiceNew(u, a)
    \/ \E cf \in BOOLEAN : ServiceCommit(u, cf)
    \/ \E rf \in BOOLEAN : ServiceRollback(u, rf)
    \/ ServiceCall(u)
    \/ ServiceReturn(u)
    \/ Raise(u, "AppError")

\* ... and unit B, a second task, is handed the instances A made and uses
\* them with a session of its own.
SvcGuestStep(u) ==
    \/ \E s \in Sessions : SetSession(u, s)
    \/ ServiceCommit(u, FALSE)
    \/ ServiceRollback(u, FALSE)

NextSvc == SvcStep("A") \/ SvcGuestStep("B")

SpecSvc == Init /\ [][NextSvc]_vars

\* Unit A registers repositories, resolves them and uses them; unit B, a
\* second task, uses the instance A resolved, with a session of its own.
RepoStep(u) ==
    \/ \E s \in Sessions : SetSession(u, s)
    \/ \E k \in Kinds, p \in Factories : Register(u, k, p)
    \/ \E k \in Kinds : Resolve(u, k)
    \/ RepoCreate(u)

RepoGuestStep(u) ==
    \/ \E s \in Sessions : SetSession(u, s)
    \/ RepoCreate(u)

NextRepo == RepoStep("A") \/ RepoGuestStep("B")

SpecRepo == Init /\ [][NextRepo]_vars

\* A unit with no session bound that registers providers, resolves kinds
\* and wires objects, some of whose slots it has set itself.
DiStep(u) ==
    \/ \E k \in RegistryKeys, p \in ProviderKinds : Register(u, k, p)
    \/ \E k \in RegistryKeys : Resolve(u, k)
    \/ NewObject(u)
    \/ \E name \in {"users"} : AssignSlot(u, name)
    \/ AutowireObject(u)

NextDi == \E u \in {"A"} : DiStep(u)

SpecDi == Init /\ [][NextDi]_vars

\* ------------------------------------------------------- seed_runner.py
\* execute_all(root, shared_transaction) up to the choice of the mode, for n
\* seed scripts found; with none it returns at once.
ExecuteAll(u, shared, n) ==
    /\ Running(u)
    /\ stack[u] = <<>>
    /\ seed.mode \in {"isolated", "shared"} => (seed.left = 0 /\ seed.call = 0)
    /\ n <= fuel
    /\ seed' = IF n = 0 THEN NoSeed
               ELSE [mode |-> IF shared THEN "shared" ELSE "isolated",
                     left |-> n, call |-> 0, runs |-> 0]
    /\ last' = Ev("execute_all", u, "none", "none", None)
    /\ UNCHANGED <<session_cv, tx_depth, stack, exc, origin, sessions, tokens, nest, fuel>>
    /\ UNCHANGED <<diVars, mw, eng>>

\* _run_one_seed(path) up to the first call of the seed's run function.  ok:
\* the module can be imported and has an async `run`; xf: the connectivity
\* query fails.  A session s is created, bound and put in a transaction.  An
\* error of async_session() is raised outside the try block and ends
\* execute_all.
SeedEnter(u, s, ok, xf) ==
    /\ Running(u)
    /\ stack[u] = <<>>
    /\ seed.mode = "isolated"
    /\ seed.left > 0
    /\ fuel > 0
    /\ fuel' = fuel - 1
    /\ sessions[s].state = "free"
    /\ \A t \in 1..(s - 1) : sessions[t].state # "free"
    /\ LET g == GetSessionmakerCall(eng)
           began == SBegin(SOpen(sessions[s], u))
           next == [seed EXCEPT !.left = @ - 1, !.call = 0, !.runs = 0]
       IN IF ~ok
          THEN /\ seed' = next
               /\ last' = Ev("seed_skip", u, "none", "none", None)
               /\ UNCHANGED <<eng, sessions, session_cv, stack>>
          ELSE IF g.out # "none"
          THEN /\ eng' = g.e
               /\ seed' = [seed EXCEPT !.mode = "aborted"]
               /\ last' = Ev("seed_enter", u, "none", g.out, None)
               /\ UNCHANGED <<sessions, session_cv, stack>>
          ELSE IF xf
          THEN /\ eng' = g.e
               /\ seed' = next
               /\ sessions' = [sessions EXCEPT ![s] =
                      SClose(BeginCtxExit(began, "DbError", FALSE, FALSE).s)]
               /\ last' = [Ev("seed_enter", u, "DbError", "none", s) EXCEPT !.fault = TRUE]
               /\ UNCHANGED <<session_cv, stack>>
          ELSE /\ eng' = g.e
               /\ seed' = [next EXCEPT !.call = 1, !.runs = 1]
               /\ sessions' = [sessions EXCEPT ![s] = began]
               /\ session_cv' = CvSet(session_cv, u, s)
               /\ stack' = [stack EXCEPT ![u] =
                      Push(@, Frame("seed", s, session_cv[u], TRUE))]
               /\ last' = [Ev("seed_enter", u, "none", "none", s) EXCEPT !.real = TRUE]
    /\ UNCHANGED <<tx_depth, exc, origin, tokens, nest>>
    /\ UNCHANGED <<diVars, mw>>

\* `await run_fn(sess)` at line 94 returned: the call at line 99 starts.
SeedRunAgain(u) ==
    /\ Running(u)
    /\ stack[u] # <<>>
    /\ Top(u).kind = "seed"
    /\ seed.call = 1
    /\ seed' = [seed EXCEPT !.call = 2, !.runs = @ + 1]
    /\ last' = Ev("seed_run", u, "none", "none", Top(u).sess)
    /\ UNCHANGED <<session_cv, tx_depth, stack, exc, origin, sessions, tokens, nest, fuel>>
    /\ UNCHANGED <<diVars, mw, eng>>

\* `except Exception as e: print(...)`: an ordinary exception ends here.
SeedSwallow(e) == IF CaughtByExceptException(e) THEN "none" ELSE e

\* The rest of _run_one_seed, once the call at line 99 returned or either
\* call raised: the transaction ends, the failure is printed, the binding is
\* reset and the session closed.  What still propagates ends execute_all.
SeedExit(u, cf, rf) ==
    /\ stack[u] # <<>>
    /\ Top(u).kind = "seed"
    /\ exc[u] # "none" \/ seed.call = 2
    /\ LET f == Top(u)
           rest == Pop(stack[u])
           e == exc[u]
           x == BeginCtxExit(sessions[f.sess], e, cf, rf)
           out == SeedSwallow(x.out)
       IN /\ sessions' = [sessions EXCEPT ![f.sess] = SClose(x.s)]
          /\ session_cv' = CvReset(session_cv, u, f.old)
          /\ stack' = [stack EXCEPT ![u] = rest]
          /\ exc' = [exc EXCEPT ![u] = Throw(rest, out)]
          /\ origin' = [origin EXCEPT ![u] = NoOrigin]
          /\ seed' = [seed EXCEPT !.call = 0,
                                   !.mode = IF out = "none" THEN @ ELSE "aborted"]
          /\ last' = ExitEv("seed_exit", u, e, out, f, TRUE, sessions[f.sess], SClose(x.s))
    /\ UNCHANGED <<tx_depth, tokens, nest, fuel>>
    /\ UNCHANGED <<diVars, mw, eng>>

\* A slip: the failure is printed and not raised again.
SharedReraiseNot(e) == SeedSwallow(e)

\* `except Exception as e: print(...); raise`
SharedReraise(e) == e

\* The end of _run_all_shared for a session r whose `async with sess.begin()`
\* block is left with exception e: the session and what propagates.
SharedLeave(r, e, cf, rf) ==
    LET x == BeginCtxExit(r, e, cf, rf)
    IN [s |-> SClose(x.s), out |-> SharedReraise(x.out)]

\* _run_all_shared(paths) up to the first call of a run function: a session
\* s is created, bound and put in a transaction, and the connectivity query
\* is run (xf: it fails).  Every seed found can be loaded here: one that
\* cannot is passed over by `continue`, as if it were not in the list.
SharedEnter(u, s, xf) ==
    /\ Running(u)
    /\ stack[u] = <<>>
    /\ seed.mode = "shared"
    /\ seed.call = 0
    /\ seed.left > 0
    /\ fuel > 0
    /\ fuel' = fuel - 1
    /\ sessions[s].state = "free"
    /\ \A t \in 1..(s - 1) : sessions[t].state # "free"
    /\ LET g == GetSessionmakerCall(eng)
           began == SBegin(SOpen(sessions[s], u))
           x == SharedLeave(began, "DbError", FALSE, FALSE)
       IN IF g.out # "none"
          THEN /\ eng' = g.e
               /\ seed' = [seed EXCEPT !.mode = "aborted"]
               /\ last' = Ev("shared_enter", u, "none", g.out, None)
               /\ UNCHANGED <<sessions, session_cv, stack>>
          ELSE IF xf
          THEN /\ eng' = g.e
               /\ seed' = [seed EXCEPT !.mode = "aborted"]
               /\ sessions' = [sessions EXCEPT ![s] = x.s]
               /\ last' = Ev("shared_enter", u, "DbError", x.out, s)
               /\ UNCHANGED <<session_cv, stack>>
          ELSE /\ eng' = g.e
               /\ seed' = [seed EXCEPT !.left = @ - 1, !.call = 1, !.runs = 1]
               /\ sessions' = [sessions EXCEPT ![s] = began]
               /\ session_cv' = CvSet(session_cv, u, s)
               /\ stack' = [stack EXCEPT ![u] =
                      Push(@, Frame("shared", s, session_cv[u], TRUE))]
               /\ last' = [Ev("shared_enter", u, "none", "none", s) EXCEPT !.real = TRUE]
    /\ UNCHANGED <<tx_depth, exc, origin, tokens, nest>>
    /\ UNCHANGED <<diVars, mw>>

\* The run function of one seed returned: the loop calls that of the next.
SharedRunNext(u) ==
    /\ Running(u)
    /\ stack[u] # <<>>
    /\ Top(u).kind = "shared"
    /\ seed.left > 0
    /\ seed' = [seed EXCEPT !.left = @ - 1, !.runs = @ + 1]
    /\ last' = Ev("shared_run", u, "none", "none", Top(u).sess)
    /\ UNCHANGED <<session_cv, tx_depth, stack, exc, origin, sessions, tokens, nest, fuel>>
    /\ UNCHANGED <<diVars, mw, eng>>

\* The rest of _run_all_shared, once the last run function returned or one
\* raised: the transaction ends, the binding is reset, the session closed.
SharedExit(u, cf, rf) ==
    /\ stack[u] # <<>>
    /\ Top(u).kind = "shared"
    /\ exc[u] # "none" \/ seed.left = 0
    /\ LET f == Top(u)
           rest == Pop(stack[u])
           e == exc[u]
           x == SharedLeave(sessions[f.sess], e, cf, rf)
       IN /\ sessions' = [sessions EXCEPT ![f.sess] = x.s]
          /\ session_cv' = CvReset(session_cv, u, f.old)
          /\ stack' = [stack EXCEPT ![u] = rest]
          /\ exc' = [exc EXCEPT ![u] = Throw(rest, x.out)]
          /\ origin' = [origin EXCEPT ![u] = NoOrigin]
          /\ seed' = [seed EXCEPT !.call = 0,
                                   !.mode = IF x.out = "none" THEN "done" ELSE "aborted"]
          /\ last' = ExitEv("shared_exit", u, e, x.out, f, TRUE, sessions[f.sess], x.s)
    /\ UNCHANGED <<tx_depth, tokens, nest, fuel>>
    /\ UNCHANGED <<diVars, mw, eng>>

\* A process that runs seeds one after the other, each in its own session,
\* and what the run function of a seed does.
SeedStep(u) ==
    \/ \E shared \in BOOLEAN, n \in 0..MaxCalls : ExecuteAll(u, shared, n)
    \/ \E s \in Sessions, ok, xf \in BOOLEAN : SeedEnter(u, s, ok, xf)
    \/ SeedRunAgain(u)
    \/ \E cf, rf \in BOOLEAN : SeedExit(u, cf, rf)
    \/ \E s \in Sessions, xf \in BOOLEAN : SharedEnter(u, s, xf)
    \/ SharedRunNext(u)
    \/ \E cf, rf \in BOOLEAN : SharedExit(u, cf, rf)
    \/ GetSession(u)
    \/ Write(u)
    \/ \E e \in BodyErrors : Raise(u, e)

NextSeed == \E u \in {"A"} : SeedStep(u)

SpecSeed == Init /\ [][NextSeed]_vars

\* Requests served concurrently by one DBMiddleware instance, the
\* application's shutdown hook, and code that uses db/engine.py.
EngStep(u) ==
    \/ \E s \in Sessions : DispatchEnter(u, s)
    \/ DispatchExit(u, FALSE)
    \/ Shutdown(u)
    \/ EnsureEngine(u)
    \/ GetSessionmaker(u)
    \/ \E sm \in {"", "injected"} : SetSessionmaker(u, sm)
    \/ \E v \in BOOLEAN : Putenv(u, v)

NextEng == \E u \in Units : EngStep(u)

SpecEng == Init /\ [][NextEng]_vars

\* ============================================================== properties
\* The exit, in the latest step, of the outermost scope of a nest made of
\* session_in_transaction scopes only.
SitNestEnded ==
    /\ last.op = "sit_exit"
    /\ last.outer
    /\ last.kids \subseteq {"sit"}

\* C1: N >= 1 nested entries into session_in_transaction followed by the N
\* matching exits call begin() on the session exactly once and, when the
\* outermost body returned normally, end with exactly one commit and zero
\* rollbacks.  (Stated for the case in which the commit itself succeeds.)
C1_NestBeginsAndCommitsOnce ==
    SitNestEnded =>
        /\ nest[last.unit].b = 1
        /\ (last.in = "none" /\ last.out = "none") =>
               (nest[last.unit].c = 1 /\ nest[last.unit].r = 0)

\* C2: the exit of a session_in_transaction scope that leaves the depth above
\* 0 calls neither commit nor rollback, whether its body returned or raised;
\* an exit that calls one of them is the exit of the outermost scope.
C2_InnerExitIsAccountingOnly ==
    last.op = "sit_exit" =>
        /\ tx_depth[last.unit] > 0 => (last.xc = 0 /\ last.xr = 0)
        /\ (last.xc > 0 \/ last.xr > 0) => (last.outer /\ tx_depth[last.unit] = 0)

\* An inner scope whose body raised has just been left.
C2_Witness ==
    /\ last.op = "sit_exit"
    /\ tx_depth[last.unit] > 0
    /\ last.in = "AppError"
    /\ sessions[last.sess].inTx

\* C3: the depth is never negative, and it is 0 whenever the unit has no
\* session_in_transaction scope open, whatever way the scopes were left.
C3_DepthZeroWhenNoScope ==
    \A u \in Units :
        /\ tx_depth[u] >= 0
        /\ ~HasKind(stack[u], {"sit"}) => tx_depth[u] = 0

\* The exit of an outermost transaction boundary (a session_in_transaction
\* scope that opened the real transaction, or a @transactional call inside no
\* other boundary) whose body raised an ordinary exception.
OutermostBodyRaised ==
    /\ last.op \in {"sit_exit", "txn_exit"}
    /\ last.outer
    /\ last.op = "sit_exit" => (last.real /\ last.kids \subseteq {"sit"})
    /\ last.op = "txn_exit" => last.kids \subseteq {"txn"}
    /\ last.in = "AppError"

\* C4: when the body of an outermost boundary raises, the transaction is
\* rolled back, no commit is performed and the caller gets the exception the
\* body raised.  (Stated for the case in which the rollback itself succeeds.)
C4_BodyFailureRollsBack ==
    (OutermostBodyRaised /\ last.out # "RollbackError") =>
        /\ last.dr >= 1
        /\ last.dc = 0
        /\ last.out = last.in

\* The exit of @transactional M1, whose body awaited @transactional M2, whose
\* body raised an application error that M1 did not catch.
NestedTxnFailed ==
    /\ last.op = "txn_exit"
    /\ last.outer
    /\ last.kids = {"txn"}
    /\ last.org.e = "AppError"
    /\ last.org.kind = "txn"
    /\ last.org.lvl = Len(stack[last.unit]) + 2
    /\ last.in = "AppError"

\* C5: M1 calls M2, both @transactional, M2 raises and M1 does not catch it:
\* the session receives exactly one rollback and no commit, and M1's caller
\* gets M2's error.  (Stated for the case in which no rollback call fails.)
C5_NestedFailureOneRollback ==
    (NestedTxnFailed /\ last.out # "RollbackError") =>
        /\ last.dr = 1
        /\ last.dc = 0
        /\ last.out = last.org.e

\* C6: a @transactional method that calls @transactional methods commits at
\* most once in all, and when it raises, nothing written since it was entered
\* has been committed.
C6_ComposedCommitsOnce ==
    (last.op = "txn_exit" /\ last.outer /\ last.kids = {"txn"}) =>
        /\ last.dc <= 1
        /\ last.in # "none" => last.dd = 0

\* C7: no step of one unit changes another unit's binding or depth, and what
\* get_session returns to a unit is never a session that another unit bound.
C7_UnitsAreIsolated ==
    [][/\ \A b \in Units : b # last'.unit =>
              (session_cv'[b] = session_cv[b] /\ tx_depth'[b] = tx_depth[b])
       /\ \A b \in Units : GetSessionResult(session_cv', b) = "none" =>
              sessions'[GetSessionValue(session_cv', b)].owner = b]_vars

\* One unit binds a session while the other has a session bound and a scope
\* open.
C7_Witness ==
    /\ last.op = "set_session"
    /\ \E b \in Units :
          /\ b # last.unit
          /\ session_cv[b] # None
          /\ tx_depth[b] > 0

\* C8: reset_session(token) restores the binding that existed just before the
\* set_session that returned the token (S1 after the second of two bindings
\* is undone), and get_session raises once that binding was "no session".
C8_ResetRestoresPrevious ==
    (last.op = "reset_session" /\ last.out = "none") =>
        LET tk == tokens[last.unit][last.tok]
        IN /\ session_cv[last.unit] = tk.old
           /\ tk.old = None => GetSessionResult(session_cv, last.unit) = "NotBound"

\* set_session(S1), set_session(S2), reset_session(token2) and then
\* reset_session(token1) have run in a unit that had no binding.
C8_Witness ==
    /\ last.op = "reset_session"
    /\ last.out = "none"
    /\ last.tok = 1
    /\ Len(tokens[last.unit]) = 2
    /\ tokens[last.unit][1].old = None
    /\ tokens[last.unit][2].old = tokens[last.unit][1].val
    /\ tokens[last.unit][2].val # tokens[last.unit][1].val
    /\ tokens[last.unit][2].used
    /\ last.sess = tokens[last.unit][1].val
    /\ session_cv[last.unit] = None

\* C9: when dispatch ends, however the handler ended, the unit's binding is
\* what it was before the request, and the request's session is closed and
\* bound in no unit.
C9_DispatchAlwaysReleases ==
    last.op = "dispatch_exit" =>
        /\ session_cv[last.unit] = last.old
        /\ sessions[last.sess].state = "closed"
        /\ \A u \in Units : session_cv[u] # last.sess

\* A request served in a unit that had a session bound was cancelled.
C9_Witness ==
    /\ last.op = "dispatch_exit"
    /\ last.in = "Cancelled"
    /\ last.old # None
    /\ sessions[last.old].state = "open"

\* C10: a request cancelled while a session_in_transaction scope was open
\* ends with nothing committed after the cancellation, no transaction left on
\* the session, the depth back at 0 and the session unbound and closed.
C10_CancelledRequestFullyReleased ==
    (last.op = "dispatch_exit" /\ last.in = "Cancelled" /\ last.org.kind = "sit") =>
        /\ sessions[last.sess].durable = last.org.d
        /\ ~sessions[last.sess].inTx
        /\ tx_depth[last.unit] = 0
        /\ session_cv[last.unit] # last.sess
        /\ sessions[last.sess].state = "closed"

\* C11: when the handler raised an exception (one that `except Exception`
\* catches), dispatch calls rollback on the session exactly once, on the
\* session as the handler left it and before closing it, whether that rollback
\* succeeds or fails the caller gets the handler's exception, dispatch calls
\* no commit, and the session ends closed and unbound.
C11_HandlerFailureRollsBackAndReraises ==
    (last.op = "dispatch_exit" /\ CaughtByExceptException(last.in)) =>
        /\ last.xr = 1
        /\ last.xc = 0
        /\ last.out = last.in
        /\ sessions[last.sess].state = "closed"
        /\ session_cv[last.unit] # last.sess

\* The handler raised and the rollback that dispatch attempted failed.
C11_Witness ==
    /\ last.op = "dispatch_exit"
    /\ last.in = "AppError"
    /\ last.fault
    /\ last.out = "AppError"
    /\ last.dd = 0
    /\ sessions[last.sess].rollbacks = 1

\* C12: new_session entered in a unit that has a session bound yields that
\* session, and neither entering nor leaving the scope, however its body
\* ended, changes the unit's binding, creates a session or closes one.
C12_ReuseLeavesOuterSessionAlone ==
    [][/\ (last'.op = "ns_enter" /\ session_cv[last'.unit] # None) =>
              /\ last'.sess = session_cv[last'.unit]
              /\ session_cv' = session_cv
              /\ sessions' = sessions
       /\ (last'.op = "ns_exit" /\ ~last'.real) =>
              /\ session_cv' = session_cv
              /\ sessions' = sessions]_vars

\* C13: when a new_session scope that created its session has been left, by
\* return or by exception, the unit has no session bound (get_session raises
\* the not-bound error) and the session is closed; the exit committed once if
\* the body returned, and rolled back once without committing if it raised.
C13_OwnScopeUnbindsAndCloses ==
    (last.op = "ns_exit" /\ last.real) =>
        /\ GetSessionResult(session_cv, last.unit) = "NotBound"
        /\ sessions[last.sess].state = "closed"
        /\ last.in = "none" => last.xc = 1
        /\ last.in # "none" => (last.xr = 1 /\ last.xc = 0)

\* C14: a public method of a service that is not marked non-transactional
\* (the code has no such mark) runs inside a transaction boundary of its own:
\* called outside any boundary, its exit commits once when the body returned
\* and rolls back once when the body raised.
C14_PublicOperationRunsInBoundary ==
    (last.op = "svc_exit" /\ last.outer) =>
        /\ last.in = "none" => last.xc = 1
        /\ last.in # "none" => last.xr = 1

\* C15: constructing a service in a unit with no session bound does not fail,
\* and when the body of a service method starts, every slot whose kind is
\* registered by then is populated, also when it was registered after the
\* construction.
C15_AutowireBeforeEveryBody ==
    /\ (last.op = "svc_new" /\ session_cv[last.unit] = None) => last.out = "none"
    /\ (last.op = "svc_call" /\ "UsersRepo" \in DOMAIN providers) =>
           service.users # NoInstance

\* C16: a repository operation acts on the session bound, at that moment, in
\* the unit that invokes it, whichever unit resolved the instance, and raises
\* the not-bound error when that unit has none.
C16_RepoUsesCallersSession ==
    last.op = "repo_create" =>
        /\ last.out = "none" =>
               /\ last.sess = session_cv[last.unit]
               /\ sessions[last.sess].owner = last.unit
        /\ session_cv[last.unit] = None => last.out = "NotBound"

\* A repository resolved by one unit, which has a session bound, wrote a row
\* for another unit through that other unit's session.
C16_Witness ==
    /\ last.op = "repo_create"
    /\ last.out = "none"
    /\ repo.by # last.unit
    /\ session_cv[repo.by] # None
    /\ session_cv[repo.by] # last.sess
    /\ sessions[last.sess].pending = 1
    /\ sessions[session_cv[repo.by]].pending = 0

\* C17: BaseService.commit and rollback act on a session of the unit that
\* calls them, and, when that unit is not the one that constructed the
\* service, on the session bound in the calling unit.
C17_ServiceActsOnCallersSession ==
    last.op \in {"svc_commit", "svc_rollback"} =>
        /\ sessions[last.sess].owner = last.unit
        /\ last.unit # service.by => last.sess = session_cv[last.unit]

\* C18: get_session never changes a binding; in a unit with no session bound
\* it raises the not-bound error, whose message says what to call, and what
\* it returns otherwise is the session bound in the calling unit.
C18_GetSessionRaisesWhenUnbound ==
    [][last'.op = "get_session" =>
          /\ session_cv' = session_cv
          /\ session_cv[last'.unit] = None =>
                 (last'.out = "NotBound" /\ Guidance(last'.out) # {})
          /\ last'.out = "none" =>
                 (last'.sess # None /\ last'.sess = session_cv[last'.unit])]_vars

\* get_session was called, and raised, in a unit whose request is over: the
\* session that was bound is closed and unbound.
C18_Witness ==
    /\ last.op = "get_session"
    /\ last.out = "NotBound"
    /\ \E s \in Sessions :
          sessions[s].state = "closed" /\ sessions[s].owner = last.unit

\* C19: reset_session with a token that was used before changes no unit's
\* binding (and no depth); it ends normally or with an error.
C19_SecondResetIsSafe ==
    [][(last'.op = "reset_session" /\ tokens[last'.unit][last'.tok].used) =>
          /\ session_cv' = session_cv
          /\ tx_depth' = tx_depth
          /\ last'.out \in {"none", "TokenUsed"}]_vars

\* A unit that has a session bound reset a token for the second time, while
\* the other unit had a session bound too.
C19_Witness ==
    /\ last.op = "reset_session"
    /\ last.out = "TokenUsed"
    /\ tokens[last.unit][last.tok].used
    /\ session_cv[last.unit] # None
    /\ session_cv[last.unit] # tokens[last.unit][last.tok].old
    /\ \E b \in Units : b # last.unit /\ session_cv[b] # None

\* The three failures of the core: no session bound, no factory registered,
\* a null session given to set_session.
CoreFailures == {"NotBound", "NoProvider", "NullSession"}

\* C20: the class of the error raised for one of the three failures is the
\* class of neither of the other two.
C20_CoreFailuresDistinguishable ==
    last.out \in CoreFailures =>
        \A e \in CoreFailures \ {last.out} : ErrorClass(e) # ErrorClass(last.out)

\* C21: register ends normally and stores the provider under its key, leaving
\* every other key as it was; nothing else changes the registry; and resolve
\* of a registered key invokes the provider stored last under that key.
C21_LastRegistrationWins ==
    [][/\ last'.op = "register" =>
              /\ last'.out = "none"
              /\ DOMAIN providers' = DOMAIN providers \cup {last'.di.key}
              /\ providers'[last'.di.key] = last'.di.fac
              /\ \A x \in DOMAIN providers \ {last'.di.key} : providers'[x] = providers[x]
       /\ last'.op # "register" => providers' = providers
       /\ (last'.op = "resolve" /\ last'.di.key \in DOMAIN providers) =>
              last'.di.fac = providers[last'.di.key]]_vars

\* UsersRepo was registered with one provider, used, registered again with
\* another one while PetsRepo was registered too, and resolved.
C21_Witness ==
    /\ last.op = "resolve"
    /\ last.di.key = "UsersRepo"
    /\ last.di.val.of = "mock"
    /\ obj.users.of = "ctor"
    /\ "PetsRepo" \in DOMAIN providers

\* C22: resolve of a registered key invokes the provider once, and what it
\* returns is the product of that call: an object of that provider that was
\* referred to nowhere before.
C22_ResolveMakesNewInstance ==
    [][(last'.op = "resolve" /\ last'.di.key \in DOMAIN providers) =>
          /\ last'.di.inv = 1
          /\ last'.out = "none" =>
                 /\ last'.di.val.of = providers[last'.di.key]
                 /\ last'.di.val.id \notin LiveIds \cup {0}
                 /\ repo'.id = last'.di.val.id]_vars

\* A kind was resolved while two earlier products of the same provider were
\* still in use.
C22_Witness ==
    /\ last.op = "resolve"
    /\ last.out = "none"
    /\ obj.users.of = last.di.val.of
    /\ obj.pets.of = last.di.val.of
    /\ Cardinality({obj.users.id, obj.pets.id, last.di.val.id}) = 3

\* C23: resolve of a key with no provider raises the missing-provider error,
\* whose message names the key, returns nothing, invokes nothing and leaves
\* the registry as it was.
C23_UnregisteredKindRaises ==
    [][(last'.op = "resolve" /\ last'.di.key \notin DOMAIN providers) =>
          /\ last'.out = "NoProvider"
          /\ last'.di.names = last'.di.key
          /\ last'.di.val = NoInstance
          /\ last'.di.inv = 0
          /\ providers' = providers
          /\ repo' = repo]_vars

\* PetsRepo was resolved, in vain, while UsersRepo had a provider and an
\* instance of it was held.
C23_Witness ==
    /\ last.op = "resolve"
    /\ last.out = "NoProvider"
    /\ last.di.key = "PetsRepo"
    /\ "UsersRepo" \in DOMAIN providers
    /\ repo.made

\* C24: autowire changes no slot that is set, and a second autowire right
\* after it changes no slot at all.
C24_AutowireKeepsSetSlots ==
    [][last'.op = "autowire" =>
          /\ \A n \in DOMAIN obj : obj[n] # NoInstance => obj'[n] = obj[n]
          /\ Autowire(Hints, obj', providers', session_cv', last'.unit,
                      LiveIds').slots = obj']_vars

\* autowire populated the slot pets of an object whose slot users the caller
\* had set, while UsersRepo was registered.
C24_Witness ==
    /\ last.op = "autowire"
    /\ obj.users.of = "caller"
    /\ obj.pets.of \in {"ctor", "mock"}
    /\ "UsersRepo" \in DOMAIN providers

\* The kind a slot is declared with: T for Optional[T].
SlotKind(typ) == IF typ = "Optional[UsersRepo]" THEN "UsersRepo" ELSE typ

\* C25: autowire of an object with a slot whose kind has no provider raises
\* nothing, leaves that slot unset, and leaves no other public slot unset
\* whose kind has a provider.
C25_AutowireDegradesGracefully ==
    (/\ last.op = "autowire"
     /\ \E i \in 1..Len(Hints) : SlotKind(Hints[i].typ) \notin DOMAIN providers) =>
        /\ last.out = "none"
        /\ \A i \in 1..Len(Hints) :
              ~StartsWithUnderscore(Hints[i].name) =>
                  IF SlotKind(Hints[i].typ) \in DOMAIN providers
                  THEN obj[Hints[i].name] # NoInstance
                  ELSE obj[Hints[i].name].of \in {"", "caller"}

\* C26: one DBMiddleware instance builds its engine and session factory at
\* most once, and every request's session is made by that one factory; and
\* db/engine.py creates its engine at most once.
C26_EngineBuiltOnce ==
    /\ mw.built <= 1
    /\ mw.used # {} => (mw.built = 1 /\ mw.used = {mw.SessionMaker})
    /\ mw.SessionMaker = mw.engine
    /\ eng.built <= 1
    /\ eng.engine = eng.built

\* Two requests are being served at the same time, a third one was served
\* before, and db/engine.py made its engine and was asked again.
C26_Witness ==
    /\ \A u \in Units : stack[u] # <<>> /\ Top(u).kind = "dispatch"
    /\ \E s \in Sessions : sessions[s].state = "closed"
    /\ mw.built = 1
    /\ eng.built = 1
    /\ eng.sessionmaker = "injected"
    /\ last.op = "ensure_engine"

\* C27: shutdown disposes nothing while there is no engine, and after any
\* number of shutdown calls the engine has been disposed once.
C27_DisposedOnce ==
    last.op = "shutdown" =>
        mw.disposed = (IF mw.engine = 0 THEN 0 ELSE 1)

\* The session_in_transaction scopes unit u has open.
OpenScopes(u) == {i \in 1..Len(stack[u]) : stack[u][i].kind = "sit"}

\* C28: while the body of a session_in_transaction scope runs at depth 1 or
\* more, the session bound at that moment is in a transaction, also when it
\* was bound inside the scope.
C28_BoundSessionInTransaction ==
    \A u \in Units :
        (/\ Running(u)
         /\ stack[u] # <<>>
         /\ Top(u).kind = "sit"
         /\ tx_depth[u] >= 1
         /\ tx_depth[u] = Cardinality(OpenScopes(u))
         /\ session_cv[u] # None
         /\ sessions[session_cv[u]].state = "open") =>
            sessions[session_cv[u]].inTx

\* C29: when _run_one_seed has finished a seed whose run function was
\* reached, the run function has been invoked once.
C29_SeedRunsOnce ==
    last.op = "seed_exit" => seed.runs = 1

\* C30: when the body of a new_session scope that reused the bound session
\* raises, a RuntimeError included, the same exception leaves the scope, and
\* no session is created, bound or closed by the exit.
C30_ReuseBodyErrorPropagates ==
    [][(last'.op = "ns_exit" /\ ~last'.real /\ last'.in # "none") =>
          /\ last'.out = last'.in
          /\ \A s \in Sessions : sessions'[s].state = sessions[s].state
          /\ session_cv' = session_cv]_vars

\* C31: once a unit with no scope open has reset every token its set_session
\* calls returned, in whatever order, it has no session bound.
C31_AllResetMeansUnbound ==
    \A u \in Units :
        (/\ stack[u] = <<>>
         /\ last.op = "reset_session"
         /\ last.unit = u
         /\ Len(tokens[u]) >= 2
         /\ \A i \in 1..Len(tokens[u]) : tokens[u][i].used) =>
            session_cv[u] = None

\* C32: after autowire has returned, every public slot declared with a kind
\* that has a provider is set: a provider that fails makes autowire fail.
C32_ProviderFailurePropagates ==
    (last.op = "autowire" /\ last.out = "none") =>
        \A i \in 1..Len(Hints) :
            (/\ ~StartsWithUnderscore(Hints[i].name)
             /\ Hints[i].typ \in DOMAIN providers) =>
                obj[Hints[i].name] # NoInstance

\* C33: after autowire, a slot declared Optional[T] is set when T has a
\* provider that works, and unset when T has none.
C33_OptionalSlotIsWired ==
    last.op = "autowire" =>
        \A i \in 1..Len(Hints) :
            Hints[i].typ # SlotKind(Hints[i].typ) =>
                /\ (/\ SlotKind(Hints[i].typ) \in DOMAIN providers
                    /\ providers[SlotKind(Hints[i].typ)] \in {"ctor", "mock"}) =>
                       obj[Hints[i].name] # NoInstance
                /\ SlotKind(Hints[i].typ) \notin DOMAIN providers =>
                       obj[Hints[i].name] = NoInstance

\* C34: resolve reports a missing provider only for a kind that has none.
C34_MissingProviderOnlyWhenNone ==
    (last.op = "resolve" /\ last.out = "NoProvider") => last.di.fac = ""

\* C35: when _run_one_seed has finished a seed in isolated mode, the seed's
\* session is closed and the unit has none bound; if the seed raised an
\* ordinary exception nothing of it is durable, nothing propagates and
\* execute_all goes on; and if the seed's run function returned normally the
\* seed's transaction was committed.
C35_IsolatedSeedsAreIndependent ==
    last.op = "seed_exit" =>
        /\ sessions[last.sess].state = "closed"
        /\ session_cv[last.unit] = None
        /\ CaughtByExceptException(last.in) =>
               /\ last.out = "none"
               /\ last.dr = 1
               /\ seed.mode = "isolated"
        /\ seed.runs >= 2 => last.dc = 1

C37_DispatchNeverCommits ==
    (last.op = "dispatch_exit" /\ last.in = "none") =>
        /\ last.xc = 0
        /\ last.out = "none"
        /\ sessions[last.sess].state = "closed"
        /\ sessions[last.sess].commits = last.dc
        /\ last.kids = {} =>
               /\ sessions[last.sess].commits = 0
               /\ sessions[last.sess].durable = 0

\* The handler wrote a row outside any transaction boundary and returned.
C37_Witness ==
    /\ last.op = "dispatch_exit"
    /\ last.in = "none"
    /\ last.kids = {}
    /\ last.xp = 1
    /\ sessions[last.sess].commits = 0
    /\ sessions[last.sess].durable = 0

\* C38: no unit has a closed session bound, whatever lifecycle manager bound
\* and closed it.
C38_NoClosedSessionBound ==
    \A u \in Units :
        session_cv[u] # None => sessions[session_cv[u]].state # "closed"

====
